---- MODULE Spec2Model ----
(***************************************************************************)
(* A model of the line-based edit engine of simple-coder: the line parser  *)
(* (readFile/utils.ts), the operation applier and the diff generator       *)
(* (editFile/utils.ts).                                                    *)
(*                                                                         *)
(* A JavaScript string is a sequence of one-character strings, so that     *)
(* splitting on end-of-line sequences is computed rather than assumed.     *)
(* An optional value (op.end, the range of applyRange) is a sequence of    *)
(* length 0 (undefined) or 1.                                              *)
(***************************************************************************)
EXTENDS Integers, Sequences, FiniteSets, TLC

VARIABLES
  pc,            \* position of the caller: start, parsed, ranged, applied, diffed
  content,       \* the string handed to parseLines
  range,         \* the range reported by applyRange (<<>>: none)
  before,        \* LineInfo[] handed to applyOps and generateDiff
  ops,           \* EditOperation[] handed to applyOps
  after,         \* applyOps(...).modified
  linesChanged,  \* applyOps(...).linesChanged
  totalAdds,     \* applyOps' local totalAdds when it returns
  totalDels,     \* applyOps' local totalDels when it returns
  path,          \* the label handed to generateDiff
  diff,          \* generateDiff(before, after, path)
  eol,           \* the style detectEol reported, or the default of editFile
  file,          \* the file at the target path: <<>> (none) or <<its content>>
  create,        \* editFile's create
  keepEol,       \* editFile's keepEol
  exists,        \* editFile's local exists
  written,       \* the string joined from the line texts
  result,        \* what editFile returned: <<>> (nothing yet) or <<the record>>
  rangeArg,      \* the range handed to applyRange: <<>> (none) or <<[start, end]>>
  filteredLines, \* applyRange(...).lines
  command,       \* the command handed to executeCommand
  response,      \* what the user answered to the prompt: <<>> (not asked) or <<the answer>>
  started,       \* whether a shell process was started
  output         \* what executeCommand returned: <<>> (nothing yet) or <<the record>>

engineVars ==
  <<content, range, before, ops, after, linesChanged, totalAdds, totalDels, path, diff>>
editVars == <<eol, file, create, keepEol, exists, written, result>>
readVars == <<rangeArg, filteredLines>>
cmdVars == <<command, response, started, output>>
vars == <<pc, engineVars, editVars, readVars, cmdVars>>

----------------------------------------------------------------------------
(* Bounds of the model.                                                    *)

\* longest content string handed to parseLines
MaxContent == 4
\* longest string text of an insert operation
MaxText == 2
\* largest start / end of a single operation
MaxStart == 4
\* largest start / end of a range handed to applyRange
MaxRange == 2
\* longest content of the file editFile is called on
MaxFile == 3
\* longest content string of the specification of the texts
MaxEol == 5
\* longest document of the specification of the hunks
MaxHunkLines == 8
\* longest operation list of the multi-operation specification
MaxOps == 2
\* most lines of a sample document of the multi-operation specification
MaxLines == 3
\* longest side handed to generateDiff by a direct caller
MaxDiffLen == 4

----------------------------------------------------------------------------
(* Strings.                                                                *)

LF == "\n"
CR == "\r"

Max(x, y) == IF x >= y THEN x ELSE y
Min(x, y) == IF x <= y THEN x ELSE y

\* all strings over chars of length at most n
StringsUpTo(chars, n) == UNION {[1..k -> chars] : k \in 0..n}

\* String.prototype.split(/\r\n|\r|\n/) from position i on, cur being the
\* segment collected so far: the alternation tries \r\n before \r and \n
RECURSIVE splitFrom(_, _, _)
splitFrom(s, i, cur) ==
  IF i > Len(s) THEN <<cur>>
  ELSE IF s[i] = CR /\ i + 1 <= Len(s) /\ s[i + 1] = LF
    THEN <<cur>> \o splitFrom(s, i + 2, <<>>)
  ELSE IF s[i] = CR \/ s[i] = LF
    THEN <<cur>> \o splitFrom(s, i + 1, <<>>)
  ELSE splitFrom(s, i + 1, Append(cur, s[i]))

\* mutant of splitEol: split(/\r|\n/), a \r\n counted as two separators
RECURSIVE splitEachFrom(_, _, _)
splitEachFrom(s, i, cur) ==
  IF i > Len(s) THEN <<cur>>
  ELSE IF s[i] = CR \/ s[i] = LF THEN <<cur>> \o splitEachFrom(s, i + 1, <<>>)
  ELSE splitEachFrom(s, i + 1, Append(cur, s[i]))

splitEolEach(s) == splitEachFrom(s, 1, <<>>)

splitEol(s) == splitFrom(s, 1, <<>>)

\* mutant of numberLines: the index taken as the line number
numberFromZero(lines) == [k \in 1..Len(lines) |-> [line |-> k - 1, text |-> lines[k]]]

\* lines.map((text, index) => ({ line: index + 1, text }))
numberLines(lines) == [k \in 1..Len(lines) |-> [line |-> k, text |-> lines[k]]]

\* a parser without the guard for the empty string
parseLinesUnguarded(c) == numberLines(splitEol(c))

parseLines(c) == IF Len(c) = 0 THEN <<>> ELSE numberLines(splitEol(c))

texts(lines) == [k \in 1..Len(lines) |-> lines[k].text]

\* Array.prototype.slice(from, to) with 0 <= from
slice(arr, from, to) == SubSeq(arr, from + 1, Min(to, Len(arr)))

\* a filter that reports the range as it was given
applyRangeAsGiven(lines, r) ==
  IF r = <<>> THEN [lines |-> lines, range |-> <<>>]
  ELSE LET start == Max(1, r[1].start)
           end   == Min(Len(lines), r[1].end)
       IN IF start > end \/ start > Len(lines)
            THEN [lines |-> <<>>, range |-> r]
            ELSE [lines |-> slice(lines, start - 1, end), range |-> r]

\* applyRange(lines, range): r is <<>> (no range) or <<[start, end]>>
applyRange(lines, r) ==
  IF r = <<>> THEN [lines |-> lines, range |-> <<>>]
  ELSE LET start == Max(1, r[1].start)
           end   == Min(Len(lines), r[1].end)
       IN IF start > end \/ start > Len(lines)
            THEN [lines |-> <<>>, range |-> <<[start |-> start, end |-> end]>>]
            ELSE [lines |-> slice(lines, start - 1, end),
                  range |-> <<[start |-> start, end |-> end]>>]

----------------------------------------------------------------------------
(* Edit operations.                                                        *)

Undefined == [kind |-> "undefined", value |-> <<>>]
Str(s) == [kind |-> "string", value |-> s]
Arr(a) == [kind |-> "array", value |-> a]

Op(t, s, e, x) == [type |-> t, start |-> s, end |-> e, text |-> x]

splitToLines(textOrLines) ==
  IF textOrLines.kind = "undefined" THEN <<>>
  ELSE IF textOrLines.kind = "array" THEN textOrLines.value
  ELSE IF Len(textOrLines.value) = 0 THEN << <<>> >>
  ELSE splitEol(textOrLines.value)

\* mutant of typePriority: inserts resolved first
insertFirstPriority(t) == CASE t = "insert" -> 0 [] t = "replace" -> 1 [] t = "delete" -> 2

typePriority(t) == CASE t = "delete" -> 0 [] t = "replace" -> 1 [] t = "insert" -> 2

\* mutant of compareOps: the type priority left out
compareStartOnly(a, b) == a.start - b.start

\* the comparator handed to sort
compareOps(a, b) ==
  IF a.start # b.start THEN a.start - b.start
  ELSE typePriority(a.type) - typePriority(b.type)

\* Array.prototype.sort is stable: an element goes after every element
\* that does not compare greater than it
RECURSIVE insertSorted(_, _)
insertSorted(sorted, op) ==
  IF sorted = <<>> THEN <<op>>
  ELSE IF compareOps(sorted[Len(sorted)], op) <= 0 THEN Append(sorted, op)
  ELSE Append(insertSorted(SubSeq(sorted, 1, Len(sorted) - 1), op), sorted[Len(sorted)])

RECURSIVE sortOps(_)
sortOps(list) ==
  IF list = <<>> THEN <<>>
  ELSE insertSorted(sortOps(SubSeq(list, 1, Len(list) - 1)), list[Len(list)])

\* Array.prototype.splice(start, deleteCount, ...items)
splice(arr, start, deleteCount, items) ==
  LET s  == IF start < 0 THEN Max(Len(arr) + start, 0) ELSE Min(start, Len(arr))
      dc == Max(0, Min(deleteCount, Len(arr) - s))
  IN SubSeq(arr, 1, s) \o items \o SubSeq(arr, s + dc + 1, Len(arr))

\* mutant of insertIndex: the 1-based start used as the 0-based index
insertIndexOneBased(working, op) == Max(0, Min(Len(working), op.start))

insertIndex(working, op) == Max(0, Min(Len(working), op.start - 1))
\* mutant of startIdx: the 1-based start used as the 0-based index
startIdxOneBased(working, op) == Max(0, Min(Len(working) - 1, op.start))

startIdx(working, op) == Max(0, Min(Len(working) - 1, op.start - 1))
endLine(op) == IF op.end = <<>> THEN op.start ELSE op.end[1]
endIdx(working, op) == Max(0, Min(Len(working) - 1, endLine(op) - 1))

\* mutant of deleteCount: the span taken as exclusive of its end
deleteCountExclusive(working, op) == endIdx(working, op) - startIdx(working, op)

deleteCount(working, op) == endIdx(working, op) - startIdx(working, op) + 1

\* one iteration of the loop over the sorted operations
applyOp(st, op) ==
  IF op.type = "insert" THEN
    LET linesToInsert == splitToLines(op.text)
    IN [working   |-> splice(st.working, insertIndex(st.working, op), 0, linesToInsert),
        totalAdds |-> st.totalAdds + Len(linesToInsert),
        totalDels |-> st.totalDels]
  ELSE IF deleteCount(st.working, op) <= 0 THEN st
  ELSE IF op.type = "delete" THEN
    [working   |-> splice(st.working, startIdx(st.working, op), deleteCount(st.working, op), <<>>),
     totalAdds |-> st.totalAdds,
     totalDels |-> st.totalDels + deleteCount(st.working, op)]
  ELSE
    LET replacementLines == splitToLines(op.text)
    IN [working   |-> splice(st.working, startIdx(st.working, op),
                             deleteCount(st.working, op), replacementLines),
        totalAdds |-> st.totalAdds + Len(replacementLines),
        totalDels |-> st.totalDels + deleteCount(st.working, op)]

\* the loop state after the first k operations of sorted
RECURSIVE applyLoop(_, _, _)
applyLoop(originalLines, sorted, k) ==
  IF k = 0 THEN [working |-> texts(originalLines), totalAdds |-> 0, totalDels |-> 0]
  ELSE applyOp(applyLoop(originalLines, sorted, k - 1), sorted[k])

\* an applier that reports the net change of the line count
applyOpsNetChange(originalLines, list) ==
  LET sorted == sortOps(list)
      final  == applyLoop(originalLines, sorted, Len(sorted))
  IN [modified     |-> numberLines(final.working),
      linesChanged |-> Max(final.totalAdds, final.totalDels) - Min(final.totalAdds, final.totalDels),
      totalAdds    |-> final.totalAdds,
      totalDels    |-> final.totalDels]

applyOps(originalLines, list) ==
  LET sorted == sortOps(list)
      final  == applyLoop(originalLines, sorted, Len(sorted))
  IN [modified     |-> numberLines(final.working),
      linesChanged |-> final.totalAdds + final.totalDels,
      totalAdds    |-> final.totalAdds,
      totalDels    |-> final.totalDels]

----------------------------------------------------------------------------
(* generateDiff.                                                           *)

\* lines of context kept around the changes of a hunk
context == 3

\* mutant of lcsCell: the neighbour to the right never looked at
lcsCellDownOnly(eq, diag, down, right) == IF eq THEN diag + 1 ELSE down

\* one cell of the LCS table from its three neighbours
lcsCell(eq, diag, down, right) == IF eq THEN diag + 1 ELSE Max(down, right)

\* row i of the table from column j on (column c of a row is at position
\* c + 1), below being row i + 1
RECURSIVE lcsRow(_, _, _, _)
lcsRow(ai, b, below, j) ==
  IF j = Len(b) THEN <<0>>
  ELSE LET rest == lcsRow(ai, b, below, j + 1)
       IN <<lcsCell(ai = b[j + 1], below[j + 2], below[j + 1], rest[1])>> \o rest

\* rows i..n of the table, the last row all zero
RECURSIVE lcsRows(_, _, _)
lcsRows(a, b, i) ==
  IF i = Len(a) THEN << [c \in 1..(Len(b) + 1) |-> 0] >>
  ELSE LET rest == lcsRows(a, b, i + 1)
       IN <<lcsRow(a[i + 1], b, rest[1], 0)>> \o rest

lcsTable(a, b) == lcsRows(a, b, 0)
lcsAt(t, i, j) == t[i + 1][j + 1]

DiffOp(t, i, j, x) == [type |-> t, aIndex |-> i, bIndex |-> j, text |-> x]

\* a choice that takes the deletion only when it is strictly better
preferDelStrictly(t, i, j) == lcsAt(t, i + 1, j) > lcsAt(t, i, j + 1)

\* the walk's choice where the two lines differ
preferDel(t, i, j) == lcsAt(t, i + 1, j) >= lcsAt(t, i, j + 1)

\* the walk of the table from (i, j), then the two draining loops
RECURSIVE walk(_, _, _, _, _)
walk(a, b, t, i, j) ==
  IF i < Len(a) /\ j < Len(b) THEN
    IF a[i + 1] = b[j + 1]
      THEN <<DiffOp("equal", i, j, a[i + 1])>> \o walk(a, b, t, i + 1, j + 1)
    ELSE IF preferDel(t, i, j)
      THEN <<DiffOp("del", i, j, a[i + 1])>> \o walk(a, b, t, i + 1, j)
    ELSE <<DiffOp("add", i, j, b[j + 1])>> \o walk(a, b, t, i, j + 1)
  ELSE IF i < Len(a) THEN <<DiffOp("del", i, j, a[i + 1])>> \o walk(a, b, t, i + 1, j)
  ELSE IF j < Len(b) THEN <<DiffOp("add", i, j, b[j + 1])>> \o walk(a, b, t, i, j + 1)
  ELSE <<>>

\* a changes list whose additions are numbered against the old document
RECURSIVE buildChangesOldCursor(_, _, _, _)
buildChangesOldCursor(stream, k, oldLineCursor, newLineCursor) ==
  IF k > Len(stream) THEN <<>>
  ELSE IF stream[k].type = "equal"
    THEN buildChangesOldCursor(stream, k + 1, oldLineCursor + 1, newLineCursor + 1)
  ELSE IF stream[k].type = "del"
    THEN <<[type |-> "del", line |-> oldLineCursor, text |-> stream[k].text]>>
         \o buildChangesOldCursor(stream, k + 1, oldLineCursor + 1, newLineCursor)
  ELSE <<[type |-> "add", line |-> oldLineCursor, text |-> stream[k].text]>>
       \o buildChangesOldCursor(stream, k + 1, oldLineCursor, newLineCursor + 1)

\* the changes list: the loop over the operation stream from position k,
\* with its two cursors
RECURSIVE buildChanges(_, _, _, _)
buildChanges(stream, k, oldLineCursor, newLineCursor) ==
  IF k > Len(stream) THEN <<>>
  ELSE IF stream[k].type = "equal"
    THEN buildChanges(stream, k + 1, oldLineCursor + 1, newLineCursor + 1)
  ELSE IF stream[k].type = "del"
    THEN <<[type |-> "del", line |-> oldLineCursor, text |-> stream[k].text]>>
         \o buildChanges(stream, k + 1, oldLineCursor + 1, newLineCursor)
  ELSE <<[type |-> "add", line |-> newLineCursor, text |-> stream[k].text]>>
       \o buildChanges(stream, k + 1, oldLineCursor, newLineCursor + 1)

HunkLine(p, x) == [prefix |-> p, text |-> x]
contextLines(ts) == [k \in 1..Len(ts) |-> HunkLine(" ", ts[k])]

\* the hunk under construction with context lines ts pushed
pushContext(h, ts) ==
  [h EXCEPT !.lines = @ \o contextLines(ts), !.aLen = @ + Len(ts), !.bLen = @ + Len(ts)]

\* the state of the hunk builder before the first operation: hunk is <<>>
\* (null) or <<the open hunk>>
hunkStart ==
  [aLine |-> 1, bLine |-> 1, hunk |-> <<>>, preContext |-> <<>>,
   pendingEqual |-> <<>>, hunks |-> <<>>]

\* a hunk that starts at the cursors, whatever pre-context it takes
openHunkAtCursor(st) ==
  LET created == [aStart |-> st.aLine, aLen |-> 0, bStart |-> st.bLine, bLen |-> 0, lines |-> <<>>]
  IN [st EXCEPT !.hunk = <<pushContext(created, st.preContext)>>, !.preContext = <<>>]

openHunk(st) ==
  LET aStart  == Max(1, st.aLine - Len(st.preContext))
      bStart  == Max(1, st.bLine - Len(st.preContext))
      created == [aStart |-> aStart, aLen |-> 0, bStart |-> bStart, bLen |-> 0, lines |-> <<>>]
  IN [st EXCEPT !.hunk = <<pushContext(created, st.preContext)>>, !.preContext = <<>>]

\* a close that takes every pending equal line as trailing context
closeHunkTakingAll(st) ==
  IF st.hunk = <<>> THEN st
  ELSE [st EXCEPT !.hunks = Append(@, pushContext(st.hunk[1], st.pendingEqual)),
                  !.pendingEqual = <<>>,
                  !.hunk = <<>>]

closeHunk(st) ==
  IF st.hunk = <<>> THEN st
  ELSE LET trail == slice(st.pendingEqual, 0, context)
       IN [st EXCEPT !.hunks = Append(@, pushContext(st.hunk[1], trail)),
                     !.pendingEqual = <<>>,
                     !.hunk = <<>>]

getOrOpenHunk(st) == IF st.hunk # <<>> THEN st ELSE openHunk(st)

\* Array.prototype.slice(-k)
lastOf(arr, k) == SubSeq(arr, Max(1, Len(arr) - k + 1), Len(arr))

\* the pre-context left after a hunk closed on too many equal lines: taken
\* from pendingEqual after closeHunk has emptied it
carryForward(closed) == lastOf(closed.pendingEqual, context)

hunkEqual(st, op) ==
  LET counted ==
        IF st.hunk # <<>> THEN
          LET pushed == [st EXCEPT !.pendingEqual = Append(@, op.text)]
          IN IF Len(pushed.pendingEqual) > context
               THEN LET closed == closeHunk(pushed)
                    IN [closed EXCEPT !.preContext = carryForward(closed),
                                      !.pendingEqual = <<>>]
               ELSE pushed
        ELSE
          LET pushed == Append(st.preContext, op.text)
          IN [st EXCEPT !.preContext =
                IF Len(pushed) > context THEN Tail(pushed) ELSE pushed]
  IN [counted EXCEPT !.aLine = @ + 1, !.bLine = @ + 1]

\* a del or an add: the pending equal lines are flushed into the hunk first
hunkChange(st, op) ==
  LET opened  == getOrOpenHunk(st)
      flushed == pushContext(opened.hunk[1], opened.pendingEqual)
  IN IF op.type = "del"
       THEN [opened EXCEPT
               !.hunk = <<[flushed EXCEPT !.lines = Append(@, HunkLine("-", op.text)),
                                          !.aLen = @ + 1]>>,
               !.pendingEqual = <<>>,
               !.aLine = @ + 1]
       ELSE [opened EXCEPT
               !.hunk = <<[flushed EXCEPT !.lines = Append(@, HunkLine("+", op.text)),
                                          !.bLen = @ + 1]>>,
               !.pendingEqual = <<>>,
               !.bLine = @ + 1]

hunkStep(st, op) == IF op.type = "equal" THEN hunkEqual(st, op) ELSE hunkChange(st, op)

\* the hunk builder after the first k operations of the stream
RECURSIVE hunkLoop(_, _)
hunkLoop(stream, k) ==
  IF k = 0 THEN hunkStart ELSE hunkStep(hunkLoop(stream, k - 1), stream[k])

\* the hunks once the last open hunk has taken its trailing context
buildHunks(stream) == closeHunk(hunkLoop(stream, Len(stream))).hunks

\* a rendering whose hunk headers give the new side's start for the old side
RECURSIVE renderHunksNewStart(_, _)
renderHunksNewStart(hunks, k) ==
  IF k > Len(hunks) THEN <<>>
  ELSE <<[kind |-> "hunk", aStart |-> hunks[k].bStart, aCount |-> Max(0, hunks[k].aLen),
          bStart |-> hunks[k].bStart, bCount |-> Max(0, hunks[k].bLen)]>>
       \o [i \in 1..Len(hunks[k].lines) |->
             [kind |-> "line", prefix |-> hunks[k].lines[i].prefix,
              text |-> hunks[k].lines[i].text]]
       \o renderHunksNewStart(hunks, k + 1)

\* the unified text as its lines: the two header lines, then per hunk its
\* header and its lines, or the one empty hunk header
RECURSIVE renderHunks(_, _)
renderHunks(hunks, k) ==
  IF k > Len(hunks) THEN <<>>
  ELSE <<[kind |-> "hunk", aStart |-> hunks[k].aStart, aCount |-> Max(0, hunks[k].aLen),
          bStart |-> hunks[k].bStart, bCount |-> Max(0, hunks[k].bLen)]>>
       \o [i \in 1..Len(hunks[k].lines) |->
             [kind |-> "line", prefix |-> hunks[k].lines[i].prefix,
              text |-> hunks[k].lines[i].text]]
       \o renderHunks(hunks, k + 1)

EmptyHunkHeader == [kind |-> "hunk", aStart |-> 1, aCount |-> 0, bStart |-> 1, bCount |-> 0]

\* a unified text without the marker of an empty diff
renderUnifiedNoMarker(hunks, p) ==
  <<[kind |-> "---", text |-> "a/" \o p], [kind |-> "+++", text |-> "b/" \o p]>>
  \o renderHunks(hunks, 1)

renderUnified(hunks, p) ==
  <<[kind |-> "---", text |-> "a/" \o p], [kind |-> "+++", text |-> "b/" \o p]>>
  \o renderHunks(hunks, 1)
  \o (IF Len(hunks) = 0 THEN <<EmptyHunkHeader>> ELSE <<>>)

generateDiff(bef, aft, p) ==
  LET a      == texts(bef)
      b      == texts(aft)
      stream == walk(a, b, lcsTable(a, b), 0, 0)
      hunks  == buildHunks(stream)
  IN [unified |-> renderUnified(hunks, p),
      changes |-> buildChanges(stream, 1, 1, 1),
      hunks   |-> hunks]

----------------------------------------------------------------------------
(* detectEol, and the end-of-line sequence and the join of editFile.       *)

\* the matches of /\r\n/g, /(?<!\r)\n/g and /\r(?!\n)/g
countCrlf(s) == Cardinality({i \in 1..(Len(s) - 1) : s[i] = CR /\ s[i + 1] = LF})
countLf(s) == Cardinality({i \in 1..Len(s) : s[i] = LF /\ (i = 1 \/ s[i - 1] # CR)})
countCr(s) == Cardinality({i \in 1..Len(s) : s[i] = CR /\ (i = Len(s) \/ s[i + 1] # LF)})

detectEol(s) ==
  IF countCrlf(s) > countLf(s) /\ countCrlf(s) > countCr(s) THEN "CRLF"
  ELSE IF countCr(s) > countLf(s) THEN "CR"
  ELSE "LF"

EolStyles == {"LF", "CRLF", "CR"}

eolSeq(eolStyle) ==
  IF eolStyle = "CRLF" THEN <<CR, LF>> ELSE IF eolStyle = "CR" THEN <<CR>> ELSE <<LF>>

\* a join that ends every line, the last one too, with the separator
RECURSIVE joinTerminated(_, _)
joinTerminated(ts, sep) ==
  IF ts = <<>> THEN <<>> ELSE ts[1] \o sep \o joinTerminated(Tail(ts), sep)

\* Array.prototype.join(sep)
RECURSIVE join(_, _)
join(ts, sep) ==
  IF ts = <<>> THEN <<>>
  ELSE IF Len(ts) = 1 THEN ts[1]
  ELSE ts[1] \o sep \o join(Tail(ts), sep)

----------------------------------------------------------------------------
(* executeCommand: the tests applied to the command string.  A command is  *)
(* a string; its characters are looked at one by one.                      *)

Chars(s) == [i \in 1..Len(s) |-> SubSeq(s, i, i)]

\* \s and \w for the characters of the commands
IsSpace(c) == c \in {" ", "\t", LF, CR}
UpperCase == Chars("ABCDEFGHIJKLMNOPQRSTUVWXYZ")
LowerCase == Chars("abcdefghijklmnopqrstuvwxyz")
Range(f) == {f[i] : i \in DOMAIN f}
Letters52 == Range(UpperCase) \cup Range(LowerCase)
WordChars == Letters52 \cup Range(Chars("0123456789_"))
IsLetter(c) == c \in Letters52
IsWord(c) == c \in WordChars

\* String.prototype.toLowerCase
toLowerCase(cs) ==
  [i \in 1..Len(cs) |->
     IF IsLetter(cs[i]) /\ cs[i] \notin Range(LowerCase)
       THEN LowerCase[CHOOSE k \in 1..26 : UpperCase[k] = cs[i]]
       ELSE cs[i]]

\* String.prototype.trim
trim(cs) ==
  LET kept == {i \in 1..Len(cs) : ~IsSpace(cs[i])}
  IN IF kept = {} THEN <<>>
     ELSE SubSeq(cs, CHOOSE i \in kept : \A j \in kept : i <= j,
                     CHOOSE i \in kept : \A j \in kept : j <= i)

\* String.prototype.startsWith
startsWith(cs, lit) == Len(cs) >= Len(lit) /\ SubSeq(cs, 1, Len(lit)) = lit
\* the literal lit stands in cs at position i
litAt(cs, i, lit) == i + Len(lit) - 1 <= Len(cs) /\ SubSeq(cs, i, i + Len(lit) - 1) = lit

\* the elements of the patterns: a literal, \s+, \s*, an alternative of
\* literals, (?:\s|$) and \b before a word
Lit(x) == [k |-> "lit", s |-> {Chars(x)}]
Alt(S) == [k |-> "lit", s |-> {Chars(x) : x \in S}]
Ws1 == [k |-> "ws", min |-> 1]
Ws0 == [k |-> "ws", min |-> 0]
WsOrEnd == [k |-> "wsOrEnd"]
WordStart == [k |-> "wordStart"]

\* the elements k.. of pat match cs from position i
RECURSIVE matchAt(_, _, _, _)
matchAt(cs, i, pat, k) ==
  IF k > Len(pat) THEN TRUE
  ELSE IF pat[k].k = "lit" THEN
    \E lit \in pat[k].s : litAt(cs, i, lit) /\ matchAt(cs, i + Len(lit), pat, k + 1)
  ELSE IF pat[k].k = "ws" THEN
    \E j \in (i + pat[k].min)..(Len(cs) + 1) :
      /\ \A q \in i..(j - 1) : IsSpace(cs[q])
      /\ matchAt(cs, j, pat, k + 1)
  ELSE IF pat[k].k = "wsOrEnd" THEN
    \/ i = Len(cs) + 1 /\ matchAt(cs, i, pat, k + 1)
    \/ i <= Len(cs) /\ IsSpace(cs[i]) /\ matchAt(cs, i + 1, pat, k + 1)
  ELSE
    /\ i = 1 \/ ~IsWord(cs[i - 1])
    /\ matchAt(cs, i, pat, k + 1)

\* RegExp.prototype.test of an unanchored pattern
test(pat, cs) == \E i \in 1..(Len(cs) + 1) : matchAt(cs, i, pat, 1)

DANGEROUS_PATTERNS ==
  << <<Lit("rm"), Ws1, Lit("-rf"), Ws1, Lit("/"), WsOrEnd>>,
     <<Lit("rm"), Ws1, Lit("-rf"), Ws1, Lit("/*")>>,
     <<Lit("dd"), Ws1, Lit("if=/dev/"), Alt({"zero", "random", "urandom"}), Ws1, Lit("of=/")>>,
     <<Lit("mkfs.")>>,
     <<Lit(":()"), Ws0, Lit("{"), Ws0, Lit(":|:&"), Ws0, Lit("};:")>>,
     <<Lit("chmod"), Ws1, Lit("-R"), Ws1, Lit("000"), Ws1, Lit("/")>>,
     <<Lit(">"), Ws0, Lit("/dev/"), Alt({"sda", "hda", "nvme"})>>,
     <<WordStart, Lit("sudo"), Ws1>> >>

\* checkDangerousPatterns(command) !== null
checkDangerousPatterns(cmd) ==
  \E n \in 1..Len(DANGEROUS_PATTERNS) : test(DANGEROUS_PATTERNS[n], Chars(cmd))

SAFE_COMMANDS ==
  {"ls", "pwd", "cd", "cat", "head", "tail", "less", "more", "cp", "mv", "rm", "mkdir",
   "rmdir", "touch", "find", "grep", "sed", "awk", "cut", "sort", "uniq", "wc", "tr", "diff",
   "patch", "tar", "zip", "unzip", "gzip", "gunzip",
   "node", "npm", "npx", "pnpm", "yarn", "bun", "deno", "python", "python3", "pip", "pip3",
   "pipenv", "poetry", "ruby", "gem", "bundle", "rails", "go", "cargo", "rustc", "java",
   "javac", "mvn", "gradle", "gcc", "g++", "clang", "make", "cmake", "git", "gh", "hg", "svn",
   "docker", "docker-compose", "kubectl", "tsc", "tsx", "eslint", "prettier", "jest",
   "vitest", "pytest",
   "echo", "date", "whoami", "hostname", "uname", "which", "type", "ps", "top", "df", "du",
   "free", "env", "printenv",
   "ping", "nslookup", "dig", "host", "netstat", "ss",
   "jq", "yq", "xmllint", "base64"}

AUTO_APPROVED_COMMANDS == {"pwd", "whoami", "date"}

\* the two lists as characters
SafeNames == {Chars(x) : x \in SAFE_COMMANDS}
AutoApprovedNames == {Chars(x) : x \in AUTO_APPROVED_COMMANDS}

\* (?:\.\w+)?(?:\s|$) or (?:\s|$) after a name that ends at position e
tailMatches(cs, e, extension) ==
  \/ matchAt(cs, e + 1, <<WsOrEnd>>, 1)
  \/ /\ extension
     /\ e + 1 <= Len(cs) /\ cs[e + 1] = "."
     /\ \E z \in (e + 2)..Len(cs) :
          /\ \A q \in (e + 2)..z : IsWord(cs[q])
          /\ matchAt(cs, z + 1, <<WsOrEnd>>, 1)

\* ([^/\s]+?) from position st: the shortest name the rest matches after,
\* <<>> where there is none
nameFrom(cs, st, extension) ==
  LET ends == {e \in st..Len(cs) :
                 /\ \A q \in st..e : cs[q] # "/" /\ ~IsSpace(cs[q])
                 /\ tailMatches(cs, e, extension)}
  IN IF ends = {} THEN <<>>
     ELSE SubSeq(cs, st, CHOOSE e \in ends : \A f \in ends : e <= f)

\* match[1] of ^<prefix>(?:.*\/)?([^/\s]+?)...: the longest (?:.*\/) first,
\* then none; <<>> where the pattern does not match
pathCommand(cs, prefix, extension) ==
  LET slashes == {q \in (prefix + 1)..Len(cs) :
                    /\ cs[q] = "/"
                    /\ \A r \in (prefix + 1)..(q - 1) : cs[r] \notin {LF, CR}
                    /\ nameFrom(cs, q + 1, extension) # <<>>}
  IN IF slashes = {} THEN nameFrom(cs, prefix + 1, extension)
     ELSE nameFrom(cs, (CHOOSE q \in slashes : \A r \in slashes : r <= q) + 1, extension)

\* match[1] of ^([a-zA-Z][\w-]*), <<>> where the pattern does not match
simpleCommand(cs) ==
  IF cs = <<>> \/ ~IsLetter(cs[1]) THEN <<>>
  ELSE LET stops == {q \in 2..(Len(cs) + 1) : q = Len(cs) + 1 \/ ~(IsWord(cs[q]) \/ cs[q] = "-")}
       IN SubSeq(cs, 1, (CHOOSE q \in stops : \A r \in stops : q <= r) - 1)

parseBaseCommand(cmd) ==
  LET trimmedCommand == trim(Chars(cmd))
      script   == pathCommand(trimmedCommand, 2, TRUE)
      absolute == pathCommand(trimmedCommand, 1, FALSE)
  IN IF startsWith(trimmedCommand, Chars("./")) /\ script # <<>> THEN script
     ELSE IF startsWith(trimmedCommand, Chars("/")) /\ absolute # <<>> THEN absolute
     ELSE simpleCommand(trimmedCommand)

packageManagers == {"npm", "yarn", "pnpm", "bun"}

isSafeCommand(cmd) ==
  \/ parseBaseCommand(cmd) \in SafeNames
  \/ \E pm \in packageManagers : startsWith(trim(Chars(cmd)), Chars(pm) \o <<" ">>)

\* trimmedCommand.split(" ")[0]
firstField(cs) ==
  LET blanks == {q \in 1..Len(cs) : cs[q] = " "}
  IN IF blanks = {} THEN cs
     ELSE SubSeq(cs, 1, (CHOOSE q \in blanks : \A r \in blanks : q <= r) - 1)

\* an approval that looks at the first word only
isAutoApprovedByFirstWord(cmd) ==
  firstField(trim(Chars(cmd))) \in AutoApprovedNames

isAutoApproved(cmd) ==
  LET trimmedCommand == trim(Chars(cmd))
      baseCommand    == firstField(trimmedCommand)
  IN /\ trimmedCommand = baseCommand
     /\ baseCommand \in AutoApprovedNames

\* response.toLowerCase() === "y" || response.toLowerCase() === "yes"
approves(answer) == toLowerCase(Chars(answer)) \in {Chars("y"), Chars("yes")}

----------------------------------------------------------------------------
(* Inputs.                                                                 *)

\* the labels handed to generateDiff
Paths == {"f.txt", "src/g.ts"}

ContentChars == {"a", LF}
Contents == StringsUpTo(ContentChars, MaxContent)

Ranges == {<<[start |-> s, end |-> e]>> : s \in 0..MaxRange, e \in 0..MaxRange}

Ends(n) == {<<>>} \cup {<<e>> : e \in 1..n}

TextChars == {"a", CR, LF}
InsertTexts ==
  {Undefined} \cup {Str(s) : s \in StringsUpTo(TextChars, MaxText)}
  \cup {Arr(<<>>), Arr(<< <<"a">>, <<"b">> >>), Arr(<< <<"a", LF, "b">> >>)}
ReplaceTexts ==
  {Undefined, Str(<<>>), Str(<<"a">>), Str(<<"a", LF, "b">>), Str(<<"a", LF, "a">>),
   Str(<<"b", CR, LF, "a">>), Arr(<< <<"a">>, <<"b">> >>)}

SingleOps ==
  {Op("delete", s, e, Undefined) : s \in 1..MaxStart, e \in Ends(MaxStart)}
  \cup {Op("insert", s, <<>>, x) : s \in 1..MaxStart, x \in InsertTexts}
  \cup UNION {{Op("replace", s, e, x) : s \in 1..MaxStart, e \in Ends(MaxStart)}
              : x \in ReplaceTexts}

----------------------------------------------------------------------------
(* The caller: parse, optionally filter by a range, apply one operation.   *)

NoDiff == [unified |-> <<>>, changes |-> <<>>, hunks |-> <<>>]

Init ==
  /\ pc = "start"
  /\ content = <<>>
  /\ range = <<>>
  /\ before = <<>>
  /\ ops = <<>>
  /\ after = <<>>
  /\ linesChanged = 0
  /\ totalAdds = 0
  /\ totalDels = 0
  /\ path = ""
  /\ diff = NoDiff
  /\ eol = "LF"
  /\ file = <<>>
  /\ create = FALSE
  /\ keepEol = TRUE
  /\ exists = TRUE
  /\ written = <<>>
  /\ result = <<>>
  /\ rangeArg = <<>>
  /\ filteredLines = <<>>
  /\ command = ""
  /\ response = <<>>
  /\ started = FALSE
  /\ output = <<>>

ParseLines ==
  /\ pc = "start"
  /\ \E c \in Contents :
       /\ content' = c
       /\ before' = parseLines(c)
  /\ pc' = "parsed"
  /\ UNCHANGED <<readVars, cmdVars, range, ops, after, linesChanged, totalAdds, totalDels, path, diff, editVars>>

ApplyRange ==
  /\ pc = "parsed"
  /\ \E r \in Ranges :
       LET res == applyRange(before, r)
       IN /\ before' = res.lines
          /\ range' = res.range
  /\ pc' = "ranged"
  /\ UNCHANGED <<readVars, cmdVars, content, ops, after, linesChanged, totalAdds, totalDels, path, diff, editVars>>

ApplyOpsWith(list) ==
  LET res == applyOps(before, list)
  IN /\ ops' = list
     /\ after' = res.modified
     /\ linesChanged' = res.linesChanged
     /\ totalAdds' = res.totalAdds
     /\ totalDels' = res.totalDels
     /\ pc' = "applied"
     /\ UNCHANGED <<readVars, cmdVars, content, range, before, path, diff, editVars>>

ApplyOps ==
  /\ pc \in {"parsed", "ranged"}
  /\ \E op \in SingleOps : ApplyOpsWith(<<op>>)

GenerateDiff ==
  /\ pc = "applied"
  /\ \E p \in Paths :
       /\ path' = p
       /\ diff' = generateDiff(before, after, p)
  /\ pc' = "diffed"
  /\ UNCHANGED <<readVars, cmdVars, content, range, before, ops, after, linesChanged, totalAdds, totalDels, editVars>>

Next == ParseLines \/ ApplyRange \/ ApplyOps \/ GenerateDiff

Spec == Init /\ [][Next]_vars

----------------------------------------------------------------------------
(* The multi-operation caller: a sample document of distinct lines, as in  *)
(* the applier's tests, and an operation list of up to MaxOps operations.  *)

Letters == <<"a", "b", "c", "d", "e", "f", "g", "h", "i", "j">>

\* "a\nb\nc..." of n lines
RECURSIVE sampleContent(_)
sampleContent(n) ==
  IF n = 0 THEN <<>>
  ELSE IF n = 1 THEN <<Letters[1]>>
  ELSE sampleContent(n - 1) \o <<LF, Letters[n]>>

MultiTexts == {Str(<<"x">>), Str(<<"y", LF, "z">>)}
MultiEnds == {<<>>, <<2>>}
MultiOps ==
  {Op("delete", s, e, Undefined) : s \in 1..(MaxLines + 1), e \in MultiEnds}
  \cup {Op("insert", s, <<>>, x) : s \in 1..(MaxLines + 1), x \in MultiTexts}
  \cup {Op("replace", s, e, Str(<<"x">>)) : s \in 1..(MaxLines + 1), e \in MultiEnds}

OpsLists == UNION {[1..k -> MultiOps] : k \in 0..MaxOps}

ParseSample ==
  /\ pc = "start"
  /\ \E n \in 0..MaxLines :
       /\ content' = sampleContent(n)
       /\ before' = parseLines(sampleContent(n))
  /\ pc' = "parsed"
  /\ UNCHANGED <<readVars, cmdVars, range, ops, after, linesChanged, totalAdds, totalDels, path, diff, editVars>>

ApplyOpsList ==
  /\ pc = "parsed"
  /\ \E list \in OpsLists : ApplyOpsWith(list)

NextMulti == ParseSample \/ ApplyOpsList

SpecMulti == Init /\ [][NextMulti]_vars

----------------------------------------------------------------------------
(* The direct caller of generateDiff: any two line sequences.              *)

DiffChars == {"a", "b"}
\* one line replaced in the middle of three distinct lines
ExampleSides ==
  {numberLines(<< <<"a">>, <<"b">>, <<"c">> >>), numberLines(<< <<"a">>, <<"x">>, <<"c">> >>)}
DiffSides ==
  {numberLines(ts) : ts \in UNION {[1..k -> {<<c>> : c \in DiffChars}] : k \in 0..MaxDiffLen}}
  \cup ExampleSides

SupplySides ==
  /\ pc = "start"
  /\ \E x \in DiffSides, y \in DiffSides :
       /\ before' = x
       /\ after' = y
  /\ pc' = "applied"
  /\ UNCHANGED <<readVars, cmdVars, content, range, ops, linesChanged, totalAdds, totalDels, path, diff, editVars>>

NextDiff == SupplySides \/ GenerateDiff

SpecDiff == Init /\ [][NextDiff]_vars

----------------------------------------------------------------------------
(* The edit of a longer document: a sample document of up to MaxHunkLines  *)
(* distinct lines, one or two single-line operations, and the diff of the  *)
(* result; far apart operations give more than one hunk.                   *)

HunkOps ==
  {Op("delete", s, <<>>, Undefined) : s \in 1..MaxHunkLines}
  \cup {Op("replace", s, <<>>, Str(<<"x">>)) : s \in 1..MaxHunkLines}
  \cup {Op("insert", s, <<>>, Str(<<"x">>)) : s \in 1..MaxHunkLines}

HunkOpsLists == {<<>>} \cup {<<o>> : o \in HunkOps} \cup {<<o, q>> : o \in HunkOps, q \in HunkOps}

ParseLong ==
  /\ pc = "start"
  /\ \E n \in 0..MaxHunkLines :
       /\ content' = sampleContent(n)
       /\ before' = parseLines(sampleContent(n))
  /\ pc' = "parsed"
  /\ UNCHANGED <<readVars, cmdVars, range, ops, after, linesChanged, totalAdds, totalDels, path, diff, editVars>>

ApplyHunkOps ==
  /\ pc = "parsed"
  /\ \E list \in HunkOpsLists : ApplyOpsWith(list)

NextHunk == ParseLong \/ ApplyHunkOps \/ GenerateDiff

SpecHunk == Init /\ [][NextHunk]_vars

----------------------------------------------------------------------------
(* The reader of a text with any mixture of terminators, and the text      *)
(* joined again from its lines with one separator and parsed again.        *)

TextContents == StringsUpTo(TextChars, MaxEol)

ReadText ==
  /\ pc = "start"
  /\ \E c \in TextContents :
       /\ content' = c
       /\ before' = parseLines(c)
       /\ eol' = detectEol(c)
  /\ pc' = "parsed"
  /\ UNCHANGED <<readVars, cmdVars, range, ops, after, linesChanged, totalAdds, totalDels, path, diff,
                 file, create, keepEol, exists, written, result>>

Rejoin ==
  /\ pc = "parsed"
  /\ \E eolStyle \in EolStyles :
       /\ eol' = eolStyle
       /\ written' = join(texts(before), eolSeq(eolStyle))
       /\ after' = parseLines(join(texts(before), eolSeq(eolStyle)))
  /\ pc' = "rejoined"
  /\ UNCHANGED <<readVars, cmdVars, content, range, before, ops, linesChanged, totalAdds, totalDels, path, diff,
                 file, create, keepEol, exists, result>>

NextText == ReadText \/ Rejoin

SpecText == Init /\ [][NextText]_vars

----------------------------------------------------------------------------
(* editFile.execute: the read of the target file, the engine and the       *)
(* choice of the end-of-line sequence, the write.  The handler is split at *)
(* its two awaits.                                                         *)

\* resolve(process.cwd(), path) of a relative path
resolve(p) == "/cwd/" \o p

FileContents == StringsUpTo(TextChars, MaxFile)

EditOps ==
  {Op("insert", 1, <<>>, Str(<<"x">>)),
   Op("delete", 1, <<>>, Undefined),
   Op("replace", 1, <<>>, Str(<<"y", LF, "z">>)),
   Op("insert", 2, <<>>, Arr(<< <<"a", LF, "b">> >>))}
EditOpsLists == {<<>>} \cup {<<o>> : o \in EditOps}

FileDoesNotExist(p) == [ok |-> FALSE, error |-> "File does not exist", path |-> p]

\* the file system before the call: a file is at the target path
SeedFile ==
  /\ pc = "start"
  /\ file = <<>>
  /\ \E c \in FileContents : file' = <<c>>
  /\ UNCHANGED <<readVars, cmdVars, pc, content, range, before, ops, after, linesChanged, totalAdds, totalDels,
                 path, diff, eol, create, keepEol, exists, written, result>>

\* a read that goes on without the file whatever create says
EditFileReadAlwaysCreates ==
  /\ pc = "start"
  /\ \E p \in Paths, list \in EditOpsLists, c \in BOOLEAN, k \in BOOLEAN :
       /\ path' = resolve(p)
       /\ ops' = list
       /\ create' = c
       /\ keepEol' = k
       /\ content' = IF file = <<>> THEN <<>> ELSE file[1]
       /\ exists' = (file # <<>>)
       /\ pc' = "read"
       /\ UNCHANGED result
  /\ UNCHANGED <<readVars, cmdVars, range, before, after, linesChanged, totalAdds, totalDels, diff, eol, file,
                 written>>

\* the call up to the first await: the file is read, or found missing
EditFileRead ==
  /\ pc = "start"
  /\ \E p \in Paths, list \in EditOpsLists, c \in BOOLEAN, k \in BOOLEAN :
       /\ path' = resolve(p)
       /\ ops' = list
       /\ create' = c
       /\ keepEol' = k
       /\ IF file # <<>>
            THEN /\ content' = file[1]
                 /\ pc' = "read"
                 /\ UNCHANGED <<exists, result>>
          ELSE IF ~c
            THEN /\ result' = <<FileDoesNotExist(resolve(p))>>
                 /\ pc' = "returned"
                 /\ UNCHANGED <<content, exists>>
          ELSE /\ exists' = FALSE
               /\ pc' = "read"
               /\ UNCHANGED <<content, result>>
  /\ UNCHANGED <<readVars, cmdVars, range, before, after, linesChanged, totalAdds, totalDels, diff, eol, file,
                 written>>

\* a computation that joins with \n whatever the original content holds
EditFileComputeAlwaysLf ==
  /\ pc = "read"
  /\ LET parsed == parseLines(content)
         res    == applyOps(parsed, ops)
         style  == "LF"
     IN /\ before' = parsed
        /\ after' = res.modified
        /\ linesChanged' = res.linesChanged
        /\ totalAdds' = res.totalAdds
        /\ totalDels' = res.totalDels
        /\ diff' = generateDiff(parsed, res.modified, path)
        /\ eol' = style
        /\ written' = join(texts(res.modified), eolSeq(style))
  /\ pc' = "computed"
  /\ UNCHANGED <<readVars, cmdVars, content, range, ops, path, file, create, keepEol, exists, result>>

\* a computation that detects the style whatever keepEol and exists say
EditFileComputeAlwaysDetects ==
  /\ pc = "read"
  /\ LET parsed == parseLines(content)
         res    == applyOps(parsed, ops)
         style  == detectEol(content)
     IN /\ before' = parsed
        /\ after' = res.modified
        /\ linesChanged' = res.linesChanged
        /\ totalAdds' = res.totalAdds
        /\ totalDels' = res.totalDels
        /\ diff' = generateDiff(parsed, res.modified, path)
        /\ eol' = style
        /\ written' = join(texts(res.modified), eolSeq(style))
  /\ pc' = "computed"
  /\ UNCHANGED <<readVars, cmdVars, content, range, ops, path, file, create, keepEol, exists, result>>

\* from the read to the second await: the engine, the end-of-line style
\* and the new content
EditFileCompute ==
  /\ pc = "read"
  /\ LET parsed == parseLines(content)
         res    == applyOps(parsed, ops)
         style  == IF keepEol /\ exists THEN detectEol(content) ELSE "LF"
     IN /\ before' = parsed
        /\ after' = res.modified
        /\ linesChanged' = res.linesChanged
        /\ totalAdds' = res.totalAdds
        /\ totalDels' = res.totalDels
        /\ diff' = generateDiff(parsed, res.modified, path)
        /\ eol' = style
        /\ written' = join(texts(res.modified), eolSeq(style))
  /\ pc' = "computed"
  /\ UNCHANGED <<readVars, cmdVars, content, range, ops, path, file, create, keepEol, exists, result>>

\* the write succeeds and the handler returns its report
EditFileWrite ==
  /\ pc = "computed"
  /\ file' = <<written>>
  /\ result' = <<[ok |-> TRUE, path |-> path, diff |-> [unified |-> diff.unified,
                                                       changes |-> diff.changes],
                  linesModified |-> linesChanged, newTotal |-> Len(after)]>>
  /\ pc' = "returned"
  /\ UNCHANGED <<readVars, cmdVars, content, range, before, ops, after, linesChanged, totalAdds, totalDels,
                 path, diff, eol, create, keepEol, exists, written>>

\* the write is rejected and the outer catch returns the message
EditFileWriteFails ==
  /\ pc = "computed"
  /\ result' = <<[ok |-> FALSE, error |-> "EACCES", path |-> path]>>
  /\ pc' = "returned"
  /\ UNCHANGED <<readVars, cmdVars, content, range, before, ops, after, linesChanged, totalAdds, totalDels,
                 path, diff, eol, file, create, keepEol, exists, written>>

NextEdit == SeedFile \/ EditFileRead \/ EditFileCompute \/ EditFileWrite \/ EditFileWriteFails

SpecEdit == Init /\ [][NextEdit]_vars

----------------------------------------------------------------------------
(* The reader of a range: a sample document and any range around it, or   *)
(* no range.                                                               *)

RangeArgs ==
  {<<>>} \cup {<<[start |-> s, end |-> e]>> : s \in -1..(MaxLines + 2), e \in -1..(MaxLines + 2)}

ReadRange ==
  /\ pc = "parsed"
  /\ \E r \in RangeArgs :
       LET res == applyRange(before, r)
       IN /\ rangeArg' = r
          /\ filteredLines' = res.lines
          /\ range' = res.range
  /\ pc' = "ranged"
  /\ UNCHANGED <<content, before, ops, after, linesChanged, totalAdds, totalDels, path, diff,
                 editVars, cmdVars>>

NextRange == ParseSample \/ ReadRange

SpecRange == Init /\ [][NextRange]_vars

----------------------------------------------------------------------------
(* executeCommand.execute: the approval, the two checks of the command and *)
(* the shell process.  The handler is split at its awaits: the prompt and  *)
(* the process.                                                            *)

Pads == {<<"", "">>, <<"  ", " ">>}
Words ==
  {"", "pwd", "whoami", "date", "ls", "rm", "curl", "npm", "sudo", "dd", "chmod", "123",
   "./script.sh", "/usr/bin/node", "mkfs.ext4", ":(){ :|:& };:"}
Arguments ==
  {"", " -P", " install", " -rf /", " -rf /*", " -rf node_modules", " -R 000 /",
   " if=/dev/zero of=/dev/sda", " x > /dev/sda", " a; sudo ls"}
Commands == {p[1] \o w \o a \o p[2] : p \in Pads, w \in Words, a \in Arguments}

Answers == {"y", "yes", "Yes", "", " y", "use ls instead"}

\* the records executeCommand returns; an absent field is <<>>
Denied(answer) ==
  [denied |-> TRUE, error |-> <<"User denied execution. User feedback: ", answer>>,
   userFeedback |-> <<answer>>, command |-> <<>>, exitCode |-> <<>>]
Blocked(cmd, message) ==
  [denied |-> FALSE, error |-> message, userFeedback |-> <<>>, command |-> <<cmd>>,
   exitCode |-> <<>>]
Exited(cmd, code) ==
  [denied |-> FALSE, error |-> <<>>, userFeedback |-> <<>>, command |-> <<cmd>>,
   exitCode |-> <<code>>]

DangerousMessage == <<"Command blocked: contains dangerous pattern">>
UnlistedMessage(cmd) ==
  <<"Command blocked: ", parseBaseCommand(cmd), " is not in the safe commands list">>

\* the call up to the await of requestUserApproval: approved at once, or
\* the prompt is shown
RequestUserApproval ==
  /\ pc = "start"
  /\ \E cmd \in Commands :
       /\ command' = cmd
       /\ pc' = IF isAutoApproved(cmd) THEN "approved" ELSE "asking"
  /\ UNCHANGED <<engineVars, editVars, readVars, response, started, output>>

\* the user answers the prompt
UserAnswers ==
  /\ pc = "asking"
  /\ \E answer \in Answers :
       /\ response' = <<answer>>
       /\ IF approves(answer)
            THEN pc' = "approved" /\ UNCHANGED output
            ELSE pc' = "returned" /\ output' = <<Denied(answer)>>
  /\ UNCHANGED <<engineVars, editVars, readVars, command, started>>

\* the approved command is checked, and the shell process started
CheckAndStart ==
  /\ pc = "approved"
  /\ IF checkDangerousPatterns(command)
       THEN /\ output' = <<Blocked(command, DangerousMessage)>>
            /\ pc' = "returned"
            /\ UNCHANGED started
     ELSE IF ~isSafeCommand(command)
       THEN /\ output' = <<Blocked(command, UnlistedMessage(command))>>
            /\ pc' = "returned"
            /\ UNCHANGED started
     ELSE /\ started' = TRUE
          /\ pc' = "running"
          /\ UNCHANGED output
  /\ UNCHANGED <<engineVars, editVars, readVars, command, response>>

\* the process ends with an exit code
ShellExits ==
  /\ pc = "running"
  /\ \E code \in {0, 1} : output' = <<Exited(command, code)>>
  /\ pc' = "returned"
  /\ UNCHANGED <<engineVars, editVars, readVars, command, response, started>>

\* the process is killed at the timeout, or could not be found
ShellFails ==
  /\ pc = "running"
  /\ \E message \in {"Command timed out", "Command not found"} :
       output' = <<Blocked(command, <<message>>)>>
  /\ pc' = "returned"
  /\ UNCHANGED <<engineVars, editVars, readVars, command, response, started>>

NextCmd == RequestUserApproval \/ UserAnswers \/ CheckAndStart \/ ShellExits \/ ShellFails

SpecCmd == Init /\ [][NextCmd]_vars

----------------------------------------------------------------------------
(* Properties of applyOps over operation lists (SpecMulti).                *)

Applied == pc \in {"applied", "diffed"}

Perms(n) == {p \in [1..n -> 1..n] : \A i, j \in 1..n : i # j => p[i] # p[j]}
Permuted(list, p) == [i \in 1..Len(list) |-> list[p[i]]]

\* the order of the reference: ascending start, then delete < replace < insert
RefRank(t) == IF t = "delete" THEN 1 ELSE IF t = "replace" THEN 2 ELSE 3
RefBefore(x, y) ==
  x.start < y.start \/ (x.start = y.start /\ RefRank(x.type) < RefRank(y.type))
SameKey(x, y) == x.start = y.start /\ x.type = y.type

\* the one permutation that puts list in the reference order and keeps the
\* input order of operations the order does not separate
RefOrder(list) ==
  CHOOSE p \in Perms(Len(list)) :
    \A i, j \in 1..Len(list) :
      i < j => /\ ~RefBefore(list[p[j]], list[p[i]])
               /\ (~RefBefore(list[p[i]], list[p[j]]) => p[i] < p[j])

RefClamp(v, lo, hi) == IF v > hi THEN Max(lo, hi) ELSE IF v < lo THEN lo ELSE v

\* one operation of the reference on the working texts w, positions 1-based
RefApplyOne(st, op) ==
  LET w     == st.working
      items == splitToLines(op.text)
  IN IF op.type = "insert" THEN
       LET at == RefClamp(op.start - 1, 0, Len(w))
       IN [working |-> [k \in 1..(Len(w) + Len(items)) |->
                          IF k <= at THEN w[k]
                          ELSE IF k <= at + Len(items) THEN items[k - at]
                          ELSE w[k - Len(items)]],
           adds |-> st.adds + Len(items), dels |-> st.dels]
     ELSE
       LET first == RefClamp(op.start, 1, Len(w))
           last  == RefClamp(IF op.end = <<>> THEN op.start ELSE op.end[1], 1, Len(w))
           kept  == IF op.type = "replace" THEN items ELSE <<>>
       IN IF last < first THEN st
          ELSE [working |-> [k \in 1..(first - 1) |-> w[k]] \o kept \o
                            [k \in 1..(Len(w) - last) |-> w[last + k]],
                adds |-> st.adds + Len(kept),
                dels |-> st.dels + (last - first + 1)]

RECURSIVE RefFold(_, _, _)
RefFold(w, list, k) ==
  IF k = 0 THEN [working |-> w, adds |-> 0, dels |-> 0]
  ELSE RefApplyOne(RefFold(w, list, k - 1), list[k])

RefResult(lines, list) ==
  LET sorted == Permuted(list, RefOrder(list))
      final  == RefFold(texts(lines), sorted, Len(sorted))
  IN [texts |-> final.working, linesChanged |-> final.adds + final.dels]

\* C1: applyOps returns what the reference returns: the operations stably
\* sorted by start, then delete < replace < insert, and applied one at a
\* time to one working sequence
C1_MatchesReference ==
  Applied =>
    LET ref == RefResult(before, ops)
    IN /\ texts(after) = ref.texts
       /\ linesChanged = ref.linesChanged

\* an insert given before a delete of the same start: the sort moves the
\* delete first, and both change the document
C1_Witness ==
  /\ pc = "applied"
  /\ Len(before) = 3
  /\ Len(ops) = 2
  /\ ops[1].type = "insert" /\ ops[2].type = "delete"
  /\ ops[1].start = 2 /\ ops[2].start = 2
  /\ linesChanged >= 2

\* C2 as stated: linesChanged is the volume of lines really inserted and
\* removed, so the final length is the initial length plus adds minus dels
C2_VolumeMatchesLength ==
  Applied =>
    /\ linesChanged = totalAdds + totalDels
    /\ Len(after) = Len(before) + totalAdds - totalDels

\* C3 as stated, for a working sequence that still holds a line (the empty
\* one is the case of C2): in the loop of applyOps, a delete or replace
\* whose start is beyond the working sequence leaves the sequence and both
\* totals as they were
C3_BeyondEndIsNoOp ==
  Applied =>
    LET sorted == sortOps(ops)
    IN \A k \in 1..Len(sorted) :
         LET st == applyLoop(before, sorted, k - 1)
         IN (/\ sorted[k].type # "insert"
             /\ Len(st.working) >= 1
             /\ sorted[k].start > Len(st.working))
              => applyLoop(before, sorted, k) = st

SameResult(list) ==
  LET res == applyOps(before, list)
  IN res.modified = after /\ res.linesChanged = linesChanged

\* C5 as stated, for a document that holds a line: every permutation of
\* the operation list gives the same result
C5_AnyPermutation ==
  (Applied /\ Len(before) >= 1) =>
    \A p \in Perms(Len(ops)) : SameResult(Permuted(ops, p))

\* p keeps the relative order of the operations that share start and type
KeepsTies(list, p) ==
  \A i, j \in 1..Len(list) :
    (i < j /\ SameKey(list[p[i]], list[p[j]])) => p[i] < p[j]

\* C5 amended: every permutation that keeps the relative order of the
\* operations sharing both start and type gives the same result
C5_TiePreservingPermutation ==
  Applied => \A p \in Perms(Len(ops)) :
               KeepsTies(ops, p) => SameResult(Permuted(ops, p))

\* two operations of different keys given against the sort order, both
\* changing the document
C5_Witness ==
  /\ pc = "applied"
  /\ Len(ops) = 2
  /\ ~SameKey(ops[1], ops[2])
  /\ RefBefore(ops[2], ops[1])
  /\ Len(before) = 3
  /\ totalAdds >= 1 /\ totalDels >= 1

----------------------------------------------------------------------------
(* Properties of parseLines and of applyOps with one operation (Spec).     *)

Numbered(lines) == \A k \in 1..Len(lines) : lines[k].line = k

\* C4: the records parseLines returns, and the records applyOps returns
\* whatever lines its input records carry, are numbered 1..N in order
C4_NumberedContiguously ==
  /\ pc = "parsed" => Numbered(before)
  /\ Applied => Numbered(after)

\* applyOps on records that applyRange left numbered from 2 on, returning
\* at least two records after an insertion
C4_Witness ==
  /\ pc = "applied"
  /\ Len(before) >= 1
  /\ before[1].line = 2
  /\ Len(after) >= 2
  /\ totalAdds >= 1

\* the one operation of the call, when the call had exactly one
SingleOp(type) == Applied /\ Len(ops) = 1 /\ ops[1].type = type
TheOp == ops[1]
TheEnd == IF TheOp.end = <<>> THEN TheOp.start ELSE TheOp.end[1]
InRange == 1 <= TheOp.start /\ TheOp.start <= TheEnd /\ TheEnd <= Len(before)
LinesUpTo(n) == SubSeq(texts(before), 1, n)
LinesAfter(n) == SubSeq(texts(before), n + 1, Len(before))

\* C6: one delete with 1 <= start <= end <= N returns lines 1..start-1
\* followed by lines end+1..N, and linesChanged = end - start + 1
C6_DeleteInRange ==
  (SingleOp("delete") /\ InRange) =>
    /\ texts(after) = LinesUpTo(TheOp.start - 1) \o LinesAfter(TheEnd)
    /\ linesChanged = TheEnd - TheOp.start + 1
    /\ (TheOp.start = 1 /\ TheEnd = Len(before)) => after = <<>>

\* a delete of two lines out of the middle of the document
C6_Witness ==
  /\ SingleOp("delete") /\ InRange
  /\ TheOp.start = 2 /\ TheEnd = 3 /\ Len(before) = 4
  /\ Len(after) = 2

\* C7: one replace with 1 <= start <= end <= N whose text splits into k
\* lines returns lines 1..start-1, the k lines, lines end+1..N, and
\* linesChanged = (end - start + 1) + k; the empty string is one empty line
C7_ReplaceInRange ==
  (SingleOp("replace") /\ InRange) =>
    LET items == splitToLines(TheOp.text)
    IN /\ texts(after) = LinesUpTo(TheOp.start - 1) \o items \o LinesAfter(TheEnd)
       /\ linesChanged = (TheEnd - TheOp.start + 1) + Len(items)
       /\ TheOp.text = Str(<<>>) =>
            /\ Len(after) = Len(before) - (TheEnd - TheOp.start + 1) + 1
            /\ after[TheOp.start].text = <<>>
       /\ TheOp.text = Str(<<"b", CR, LF, "a">>) =>
            /\ after[TheOp.start].text = <<"b">>
            /\ after[TheOp.start + 1].text = <<"a">>
            /\ linesChanged = (TheEnd - TheOp.start + 1) + 2

\* a replace of two lines by the empty string
C7_Witness ==
  /\ SingleOp("replace") /\ InRange
  /\ TheOp.start = 2 /\ TheEnd = 3 /\ Len(before) >= 3
  /\ TheOp.text = Str(<<>>)

\* C8: one insert of k lines into N lines splices them at index
\* clamp(start-1, 0, N) and linesChanged = k
C8_InsertAtClampedIndex ==
  SingleOp("insert") =>
    LET items == splitToLines(TheOp.text)
        N     == Len(before)
        at    == IF TheOp.start - 1 > N THEN N ELSE TheOp.start - 1
    IN /\ texts(after) = LinesUpTo(at) \o items \o LinesAfter(at)
       /\ linesChanged = Len(items)
       /\ (TheOp.start <= N + 1 /\ Len(items) >= 1) => after[TheOp.start].text = items[1]
       /\ TheOp.start >= N + 1 => texts(after) = texts(before) \o items
       /\ \A k \in 1..Min(TheOp.start - 1, N) : after[k].text = before[k].text

\* an insert of two lines beyond line N + 1 of a document that has lines
C8_Witness ==
  /\ SingleOp("insert")
  /\ Len(before) >= 1
  /\ TheOp.start > Len(before) + 1
  /\ linesChanged = 2

\* the \r\n, lone \r and lone \n of s: every \r, and every \n that no \r
\* precedes
Separators(s) ==
  Cardinality({i \in 1..Len(s) : s[i] = CR \/ (s[i] = LF /\ (i = 1 \/ s[i - 1] # CR))})

RECURSIVE Flatten(_)
Flatten(ls) == IF ls = <<>> THEN <<>> ELSE ls[1] \o Flatten(Tail(ls))

\* C9: an insert of undefined inserts nothing and counts 0, an insert of
\* the empty string inserts one empty line and counts 1, and a string of j
\* separators inserts j + 1 lines, none holding \r or \n, that together
\* hold the other characters of the string in order
C9_InsertTextSplit ==
  SingleOp("insert") =>
    LET added == SubSeq(texts(after), Min(TheOp.start, Len(before) + 1),
                        Min(TheOp.start, Len(before) + 1) + (Len(after) - Len(before)) - 1)
    IN /\ TheOp.text = Undefined => (texts(after) = texts(before) /\ linesChanged = 0)
       /\ TheOp.text = Str(<<>>) => (added = << <<>> >> /\ linesChanged = 1)
       /\ TheOp.text.kind = "string" =>
            /\ linesChanged = Separators(TheOp.text.value) + 1
            /\ Len(added) = Separators(TheOp.text.value) + 1
            /\ \A k \in 1..Len(added) : \A i \in 1..Len(added[k]) : added[k][i] \notin {CR, LF}
            /\ Flatten(added) = SelectSeq(TheOp.text.value, LAMBDA c : c \notin {CR, LF})

\* an insert of "\r\n": one separator, two empty lines
C9_Witness ==
  /\ SingleOp("insert")
  /\ TheOp.text = Str(<<CR, LF>>)
  /\ Len(before) >= 1
  /\ linesChanged = 2

----------------------------------------------------------------------------
(* Properties of generateDiff (SpecDiff).                                  *)

\* xs is a subsequence of ys from position j of ys on
RECURSIVE IsSubseqFrom(_, _, _)
IsSubseqFrom(xs, ys, j) ==
  IF xs = <<>> THEN TRUE
  ELSE IF j > Len(ys) THEN FALSE
  ELSE IF xs[1] = ys[j] THEN IsSubseqFrom(Tail(xs), ys, j + 1)
  ELSE IsSubseqFrom(xs, ys, j + 1)

Pick(xs, S) == SelectSeq([k \in 1..Len(xs) |-> <<k, xs[k]>>], LAMBDA e : e[1] \in S)
Picked(xs, S) == [k \in 1..Len(Pick(xs, S)) |-> Pick(xs, S)[k][2]]

\* the length of a longest common subsequence, by trying every subsequence
LcsLength(xs, ys) ==
  LET common == {S \in SUBSET (1..Len(xs)) : IsSubseqFrom(Picked(xs, S), ys, 1)}
  IN CHOOSE n \in 0..Len(xs) :
       /\ \E S \in common : Cardinality(S) = n
       /\ \A S \in common : Cardinality(S) <= n

CountType(changes, t) == Len(SelectSeq(changes, LAMBDA c : c.type = t))

\* C10: the lines generateDiff treats as equal are as many as a longest
\* common subsequence, so changes has n + m - 2 * LCS entries
C10_ChangesAreMinimal ==
  pc = "diffed" =>
    LET L == LcsLength(texts(before), texts(after))
    IN /\ Len(diff.changes) = Len(before) + Len(after) - 2 * L
       /\ CountType(diff.changes, "del") = Len(before) - L
       /\ CountType(diff.changes, "add") = Len(after) - L

\* two sides of four lines that share two lines and differ in the others
C10_Witness ==
  /\ pc = "diffed"
  /\ Len(before) = 4 /\ Len(after) = 4
  /\ Len(diff.changes) = 4
  /\ CountType(diff.changes, "del") = 2

TypeOf(changes, t) == SelectSeq(changes, LAMBDA c : c.type = t)
LineSet(changes) == {changes[k].line : k \in 1..Len(changes)}
StrictlyIncreasing(changes) ==
  \A k \in 1..(Len(changes) - 1) : changes[k].line < changes[k + 1].line

\* every entry of changes names a position of its own side and carries the
\* text found there
OnSide(changes, side) ==
  \A k \in 1..Len(changes) :
    /\ changes[k].line \in 1..Len(side)
    /\ side[changes[k].line].text = changes[k].text

\* C11: a del entry carries the text of before at its line, an add entry the
\* text of after at its line; the del lines and the add lines are strictly
\* increasing; the before lines that are not deleted are, in order, the after
\* lines that are not added; replacing b by x between a and c gives
\* [del 2 b, add 2 x]
C11_ChangesNumberedBySide ==
  pc = "diffed" =>
    LET dels == TypeOf(diff.changes, "del")
        adds == TypeOf(diff.changes, "add")
    IN /\ OnSide(dels, before)
       /\ OnSide(adds, after)
       /\ StrictlyIncreasing(dels)
       /\ StrictlyIncreasing(adds)
       /\ Picked(texts(before), (1..Len(before)) \ LineSet(dels))
            = Picked(texts(after), (1..Len(after)) \ LineSet(adds))
       /\ (texts(before) = << <<"a">>, <<"b">>, <<"c">> >>
            /\ texts(after) = << <<"a">>, <<"x">>, <<"c">> >>)
           => diff.changes = <<[type |-> "del", line |-> 2, text |-> <<"b">>],
                               [type |-> "add", line |-> 2, text |-> <<"x">>]>>

\* the replaced middle line: one deletion and one addition, both at line 2
C11_Witness ==
  /\ pc = "diffed"
  /\ texts(before) = << <<"a">>, <<"b">>, <<"c">> >>
  /\ texts(after) = << <<"a">>, <<"x">>, <<"c">> >>
  /\ Len(diff.changes) = 2

\* C12: the diff of a sequence against itself has no changes and no hunk,
\* and its unified text is the two header lines for the label followed by
\* the marker @@ -1,0 +1,0 @@
C12_SelfDiffIsEmpty ==
  (pc = "diffed" /\ texts(before) = texts(after)) =>
    /\ diff.changes = <<>>
    /\ diff.hunks = <<>>
    /\ diff.unified =
         <<[kind |-> "---", text |-> "a/" \o path],
           [kind |-> "+++", text |-> "b/" \o path],
           [kind |-> "hunk", aStart |-> 1, aCount |-> 0, bStart |-> 1, bCount |-> 0]>>

\* a sequence of four lines diffed against itself
C12_Witness ==
  /\ pc = "diffed"
  /\ before = after
  /\ Len(before) = 4
  /\ path = "src/g.ts"
  /\ Len(diff.unified) = 3

----------------------------------------------------------------------------
(* Properties of the hunks of generateDiff (SpecHunk).                     *)

WithPrefix(h, P) == SelectSeq(h.lines, LAMBDA l : l.prefix \in P)
HunkTexts(h, P) == [k \in 1..Len(WithPrefix(h, P)) |-> WithPrefix(h, P)[k].text]

\* the hunk shows aLen lines of before from aStart and bLen lines of after
\* from bStart
ShowsBothSides(h) ==
  /\ h.aLen = Len(WithPrefix(h, {" ", "-"}))
  /\ h.bLen = Len(WithPrefix(h, {" ", "+"}))
  /\ h.aStart >= 1 /\ h.aStart + h.aLen - 1 <= Len(before)
  /\ h.bStart >= 1 /\ h.bStart + h.bLen - 1 <= Len(after)
  /\ HunkTexts(h, {" ", "-"}) = SubSeq(texts(before), h.aStart, h.aStart + h.aLen - 1)
  /\ HunkTexts(h, {" ", "+"}) = SubSeq(texts(after), h.bStart, h.bStart + h.bLen - 1)

\* hunk g lies wholly after hunk h on both sides
LiesAfter(g, h) ==
  /\ g.aStart > h.aStart /\ g.aStart >= h.aStart + h.aLen
  /\ g.bStart > h.bStart /\ g.bStart >= h.bStart + h.bLen

\* C13: aLen counts the context and '-' lines of a hunk and bLen its context
\* and '+' lines; those lines are the lines of before from aStart and of
\* after from bStart; each hunk lies after the one before it on both sides
C13_HunksCoverTheirRanges ==
  pc = "diffed" =>
    /\ \A k \in 1..Len(diff.hunks) : ShowsBothSides(diff.hunks[k])
    /\ \A k \in 1..(Len(diff.hunks) - 1) : LiesAfter(diff.hunks[k + 1], diff.hunks[k])

\* two hunks, the second with a deletion, an addition and context
C13_Witness ==
  /\ pc = "diffed"
  /\ Len(diff.hunks) = 2
  /\ diff.hunks[2].aStart > 1
  /\ Len(WithPrefix(diff.hunks[2], {"-"})) = 1
  /\ Len(WithPrefix(diff.hunks[2], {"+"})) = 1
  /\ Len(WithPrefix(diff.hunks[2], {" "})) >= 1

\* the number of context lines a hunk starts with / ends with
RECURSIVE Leading(_)
Leading(ls) == IF ls = <<>> \/ ls[1].prefix # " " THEN 0 ELSE 1 + Leading(Tail(ls))
RECURSIVE Trailing(_)
Trailing(ls) ==
  IF ls = <<>> \/ ls[Len(ls)].prefix # " " THEN 0
  ELSE 1 + Trailing(SubSeq(ls, 1, Len(ls) - 1))

\* the equal lines between the end of hunk h and the first change of hunk g
EqualsBetween(h, g) == (g.aStart + Leading(g.lines)) - (h.aStart + h.aLen)

\* C14: a hunk followed by another one ends with 3 lines of context, and the
\* next hunk starts with the last min(3, k) equal lines before its first
\* change, k being the equal lines after that trailing context
C14_CarriesPreContext ==
  pc = "diffed" =>
    \A i \in 1..(Len(diff.hunks) - 1) :
      LET h == diff.hunks[i]
          g == diff.hunks[i + 1]
      IN /\ Trailing(h.lines) = context
         /\ Leading(g.lines) = Min(context, EqualsBetween(h, g))

----------------------------------------------------------------------------
(* linesChanged against the changes of the diff (Spec).                    *)

\* the one operation replaces lines start..end by their own text
ReplacesByItself ==
  /\ pc = "diffed"
  /\ Len(ops) = 1 /\ TheOp.type = "replace"
  /\ InRange
  /\ splitToLines(TheOp.text) = SubSeq(texts(before), TheOp.start, TheEnd)

\* C15: replacing lines start..end by text identical to those lines gives
\* linesChanged = 2 * (end - start + 1) while the diff has no changes
C15_IdenticalReplaceCounts ==
  ReplacesByItself =>
    /\ linesChanged = 2 * (TheEnd - TheOp.start + 1)
    /\ diff.changes = <<>>
    /\ texts(after) = texts(before)

\* two lines replaced by the same two lines
C15_Witness ==
  /\ ReplacesByItself
  /\ TheOp.start = 1 /\ TheEnd = 2
  /\ linesChanged = 4
  /\ Len(diff.changes) = 0

----------------------------------------------------------------------------
(* Properties of detectEol and parseLines over any text (SpecText).        *)

\* the style with the greatest count, CRLF before CR before LF among equal
\* counts, LF where nothing is counted
GreatestStyle(s) ==
  IF countCrlf(s) > 0 /\ countCrlf(s) >= countCr(s) /\ countCrlf(s) >= countLf(s) THEN "CRLF"
  ELSE IF countCr(s) > 0 /\ countCr(s) >= countLf(s) THEN "CR"
  ELSE "LF"

\* C16: detectEol returns the style with the greatest count, ties going to
\* CRLF, then CR, then LF, and LF for a content without terminator
C16_GreatestCountWins ==
  pc = "parsed" => eol = GreatestStyle(content)

\* C17: the empty string gives no record; a content of s separators gives
\* s + 1 records, the last one empty when the content ends with a
\* terminator
C17_SeparatorsPlusOne ==
  pc = "parsed" =>
    /\ content = <<>> => before = <<>>
    /\ content # <<>> =>
         /\ Len(before) = Separators(content) + 1
         /\ content[Len(content)] \in {CR, LF} => before[Len(before)].text = <<>>
         /\ \A i \in 1..(Len(content) - 1) :
              (content[i] = LF /\ content[i + 1] = LF)
                => \E k \in 1..Len(before) : before[k].text = <<>>

\* a \r\n, a lone \r and a lone \n at the end: four records, the last empty
C17_Witness ==
  /\ pc = "parsed"
  /\ countCrlf(content) = 1 /\ countCr(content) = 1 /\ countLf(content) = 1
  /\ content[Len(content)] = LF
  /\ Len(before) = 4

\* C18: the texts joined with \n, \r\n or \r and parsed again are the same
\* texts
C18_RejoinRoundTrip ==
  pc = "rejoined" =>
    /\ Len(after) = Len(before)
    /\ \A k \in 1..Len(before) : after[k].text = before[k].text

\* a text of lone \n and lone \r, three lines, written with \r\n
C18_Witness ==
  /\ pc = "rejoined"
  /\ countLf(content) = 1 /\ countCr(content) = 1
  /\ eol = "CRLF"
  /\ countCrlf(written) = 2
  /\ Len(after) = 3

----------------------------------------------------------------------------
(* The texts of the line records (Spec).                                   *)

NoTerminator(lines) ==
  \A k \in 1..Len(lines) : \A i \in 1..Len(lines[k].text) : lines[k].text[i] \notin {CR, LF}

\* C19: no line record of parseLines and no line record of applyOps, its
\* text given as a string or as an array, holds a \r or a \n
C19_NoTerminatorInText ==
  /\ NoTerminator(before)
  /\ Applied => NoTerminator(after)

----------------------------------------------------------------------------
(* Properties of editFile (SpecEdit).                                      *)

\* the engine has left no trace: nothing parsed, applied, diffed or joined
EngineNotRun ==
  /\ before = <<>> /\ after = <<>>
  /\ linesChanged = 0 /\ totalAdds = 0 /\ totalDels = 0
  /\ diff = NoDiff
  /\ written = <<>>

\* C20: called on a missing file with create false, editFile has returned
\* {ok: false, error: 'File does not exist'} with the engine not run, and
\* the file is still missing
C20_MissingFileReturnsEarly ==
  (pc # "start" /\ file = <<>> /\ ~create) =>
    /\ pc = "returned"
    /\ result = <<FileDoesNotExist(path)>>
    /\ EngineNotRun

\* the call with an insert on a missing file, create false
C20_Witness ==
  /\ pc = "returned"
  /\ file = <<>> /\ ~create
  /\ Len(ops) = 1 /\ ops[1].type = "insert"
  /\ result # <<>> /\ ~result[1].ok

Succeeded == result # <<>> /\ result[1].ok

\* the one terminator of a successful write
Terminator ==
  IF keepEol /\ exists
    THEN IF detectEol(content) = "CRLF" THEN <<CR, LF>>
         ELSE IF detectEol(content) = "CR" THEN <<CR>>
         ELSE <<LF>>
    ELSE <<LF>>

\* C21: on success the file holds the texts of the resulting lines joined
\* by one terminator, that of the style detected on the original content
\* when keepEol is true and the file existed and \n otherwise; newTotal is
\* the number of resulting lines and linesModified is applyOps' linesChanged
C21_WritesWithOneTerminator ==
  Succeeded =>
    LET res == applyOps(parseLines(content), ops)
    IN /\ file = <<join(texts(res.modified), Terminator)>>
       /\ result[1].newTotal = Len(res.modified)
       /\ result[1].linesModified = res.linesChanged
       /\ ~exists => create

\* a file of \r\n terminators edited with keepEol, and written with \r\n
C21_Witness ==
  /\ Succeeded
  /\ keepEol /\ exists
  /\ detectEol(content) = "CRLF"
  /\ Len(ops) = 1
  /\ Len(after) >= 2
  /\ countCrlf(file[1]) >= 1

----------------------------------------------------------------------------
(* Properties of applyRange (SpecRange).                                   *)

\* the records of before whose line number lies in lo..hi
WithLineIn(lo, hi) == SelectSeq(before, LAMBDA l : lo <= l.line /\ l.line <= hi)

\* C22: a range {start, end} on N lines returns the records numbered from
\* max(1, start) to min(N, end), in order and with their numbers, and
\* reports that clamped range, also when no record lies in it; without a
\* range all lines are returned and no range is reported
C22_RangeIsClamped ==
  pc = "ranged" =>
    IF rangeArg = <<>>
      THEN filteredLines = before /\ range = <<>>
      ELSE LET lo == IF rangeArg[1].start < 1 THEN 1 ELSE rangeArg[1].start
               hi == IF rangeArg[1].end > Len(before) THEN Len(before) ELSE rangeArg[1].end
           IN /\ filteredLines = WithLineIn(lo, hi)
              /\ range = <<[start |-> lo, end |-> hi]>>
              /\ (lo > hi \/ lo > Len(before)) => filteredLines = <<>>

\* a range from below 1 to beyond the end of three lines
C22_Witness ==
  /\ pc = "ranged"
  /\ Len(before) = 3
  /\ rangeArg = <<[start |-> -1, end |-> 5]>>
  /\ range = <<[start |-> 1, end |-> 3]>>
  /\ Len(filteredLines) = 3

----------------------------------------------------------------------------
(* Properties of executeCommand (SpecCmd).                                 *)

\* the command, trimmed, is exactly pwd, whoami or date
ExactlyAutoApproved ==
  trim(Chars(command)) \in {Chars("pwd"), Chars("whoami"), Chars("date")}

\* the user was asked and answered y or yes, in any case
AnsweredYes ==
  /\ response # <<>>
  /\ response[1] \in {"y", "Y", "yes", "Yes", "YEs", "YES", "yEs", "yES", "yeS", "YeS"}

Approved == (ExactlyAutoApproved /\ response = <<>>) \/ AnsweredYes
Decided == pc \in {"running", "returned"}

\* C23: a shell process was started only for a command that was approved
\* (auto-approved without a prompt, or by a y/yes answer), matches no
\* dangerous pattern and is in the safe list; any other answer gives a
\* denial carrying the answer; an approved command that is dangerous, or
\* else unlisted, is blocked with an error; in those cases nothing started
C23_StartsOnlyThroughTheGates ==
  LET dangerous == checkDangerousPatterns(command)
      listed    == isSafeCommand(command)
  IN /\ started => (Approved /\ ~dangerous /\ listed)
     /\ ExactlyAutoApproved => response = <<>>
     /\ (pc \notin {"start", "asking"} /\ ~ExactlyAutoApproved) => response # <<>>
     /\ (response # <<>> /\ ~AnsweredYes) =>
          /\ pc = "returned" /\ ~started
          /\ output = <<Denied(response[1])>>
     /\ (Decided /\ Approved /\ dangerous) =>
          /\ pc = "returned" /\ ~started
          /\ output = <<Blocked(command, DangerousMessage)>>
     /\ (Decided /\ Approved /\ ~dangerous /\ ~listed) =>
          /\ pc = "returned" /\ ~started
          /\ output = <<Blocked(command, UnlistedMessage(command))>>
     /\ (Decided /\ Approved /\ ~dangerous /\ listed) => started

\* the user said yes to a dangerous command and it was blocked
C23_Witness ==
  /\ pc = "returned"
  /\ AnsweredYes
  /\ command = "rm -rf /"
  /\ ~started
  /\ output = <<Blocked(command, DangerousMessage)>>

----------------------------------------------------------------------------
(* The grouping of the changes into hunks (SpecHunk).                      *)

\* the operation stream of the diff in the state
Stream == walk(texts(before), texts(after), lcsTable(texts(before), texts(after)), 0, 0)

\* the positions of the changes in the stream, in order
ChangePositions(stream) ==
  LET at == {k \in 1..Len(stream) : stream[k].type # "equal"}
      F[n \in 0..Cardinality(at)] ==
        IF n = 0 THEN <<>>
        ELSE LET prev == F[n - 1]
                 rest == {k \in at : n = 1 \/ k > prev[n - 1]}
             IN Append(prev, CHOOSE k \in rest : \A j \in rest : k <= j)
  IN F[Cardinality(at)]

ChangesIn(h) == Len(WithPrefix(h, {"-", "+"}))

\* the changes shown in the first h hunks
RECURSIVE ChangesUpTo(_, _)
ChangesUpTo(hunks, h) == IF h = 0 THEN 0 ELSE ChangesUpTo(hunks, h - 1) + ChangesIn(hunks[h])

\* the hunk that shows the n-th change
HunkOf(hunks, n) ==
  CHOOSE h \in 1..Len(hunks) : ChangesUpTo(hunks, h - 1) < n /\ n <= ChangesUpTo(hunks, h)

\* C24: two consecutive changes lie in the same hunk exactly when at most 3
\* equal lines separate them; a hunk shows at most 3 context lines before
\* its first and after its last change, the first hunk min(3, e) of the e
\* equal lines before the first change and the last hunk min(3, t) of the
\* t equal lines after the last change
C24_HunksGroupNearChanges ==
  pc = "diffed" =>
    LET stream == Stream
        pos    == ChangePositions(stream)
        hunks  == diff.hunks
        N      == Len(pos)
    IN /\ ChangesUpTo(hunks, Len(hunks)) = N
       /\ N = Len(diff.changes)
       /\ \A n \in 1..(N - 1) :
            (HunkOf(hunks, n) = HunkOf(hunks, n + 1)) <=> (pos[n + 1] - pos[n] - 1 <= 3)
       /\ \A h \in 1..Len(hunks) :
            /\ ChangesIn(hunks[h]) >= 1
            /\ Leading(hunks[h].lines) <= 3
            /\ Trailing(hunks[h].lines) <= 3
       /\ N >= 1 =>
            /\ Leading(hunks[1].lines) = Min(3, pos[1] - 1)
            /\ Trailing(hunks[Len(hunks)].lines) = Min(3, Len(stream) - pos[N])

\* two changes that exactly four equal lines separate, in two hunks, with
\* more than three equal lines before the first
C24_Witness ==
  /\ pc = "diffed"
  /\ Len(diff.hunks) = 2
  /\ Len(diff.changes) = 2
  /\ ChangePositions(Stream)[2] - ChangePositions(Stream)[1] = 5
  /\ Leading(diff.hunks[1].lines) = 3
  /\ Trailing(diff.hunks[1].lines) = 3

----------------------------------------------------------------------------
(* The unified text as a patch (SpecHunk).                                 *)

\* positions from..to of src, as far as they exist
Part(src, from, to) ==
  [i \in 1..Max(0, Min(to, Len(src)) - from + 1) |-> src[from + i - 1]]

\* src patched by the lines k.. of the unified text, cursor being the first
\* line of src not yet copied: a hunk header copies the lines before aStart
\* and skips aCount lines, a context or '+' line is written, a '-' line not
RECURSIVE Patched(_, _, _, _)
Patched(unified, k, src, cursor) ==
  IF k > Len(unified) THEN Part(src, cursor, Len(src))
  ELSE IF unified[k].kind = "hunk" THEN
    Part(src, cursor, unified[k].aStart - 1)
    \o Patched(unified, k + 1, src, unified[k].aStart + unified[k].aCount)
  ELSE IF unified[k].kind = "line" THEN
    (IF unified[k].prefix = "-" THEN <<>> ELSE <<unified[k].text>>)
    \o Patched(unified, k + 1, src, cursor)
  ELSE Patched(unified, k + 1, src, cursor)

HasEmptyMarker(unified) ==
  \E k \in 1..Len(unified) :
    unified[k] = [kind |-> "hunk", aStart |-> 1, aCount |-> 0, bStart |-> 1, bCount |-> 0]

\* C25: before, with the aLen lines at aStart of every hunk replaced by the
\* hunk's context and '+' lines and every other line kept, is after; the
\* header @@ -1,0 +1,0 @@ is there exactly when changes is empty
C25_UnifiedIsAPatch ==
  pc = "diffed" =>
    /\ Patched(diff.unified, 1, texts(before), 1) = texts(after)
    /\ HasEmptyMarker(diff.unified) <=> diff.changes = <<>>

\* a patch of two hunks that deletes a line and adds another
C25_Witness ==
  /\ pc = "diffed"
  /\ Len(diff.hunks) = 2
  /\ CountType(diff.changes, "del") = 1
  /\ CountType(diff.changes, "add") = 1
  /\ Len(before) = MaxHunkLines
  /\ ~HasEmptyMarker(diff.unified)

----------------------------------------------------------------------------
(* Inverted spans (Spec).                                                  *)

Inverted(op) == op.type # "insert" /\ op.end # <<>> /\ op.end[1] < op.start

\* C26 as stated: in the loop of applyOps, a delete or replace whose given
\* end is smaller than its given start leaves the working sequence and both
\* totals as they were, whatever the length of the working sequence
C26_InvertedSpanIsNoOp ==
  Applied =>
    LET sorted == sortOps(ops)
    IN \A k \in 1..Len(sorted) :
         Inverted(sorted[k]) =>
           applyLoop(before, sorted, k) = applyLoop(before, sorted, k - 1)

----------------------------------------------------------------------------
(* Reading back what editFile wrote (SpecEdit).                            *)

StringTexts == \A k \in 1..Len(ops) : ops[k].text.kind # "array"

\* C27 as stated, for operations whose text is a string or absent (an array
\* element that holds a terminator is the case of C19): after a successful
\* call, the content of the file parsed as readFile parses it has newTotal
\* lines, with the texts of the lines applyOps produced, position by position
C27_WrittenParsesBack ==
  (Succeeded /\ StringTexts) =>
    LET readBack == parseLines(file[1])
    IN /\ Len(readBack) = result[1].newTotal
       /\ texts(readBack) = texts(applyOps(parseLines(content), ops).modified)

----------------------------------------------------------------------------
(* The edit of no operation (SpecEdit).                                    *)

\* C28 as stated: a successful call with no operation and keepEol true on
\* an existing file leaves the file's content as it was, terminator by
\* terminator, and reports linesModified 0 and no change
C28_NoOpsKeepsContent ==
  (Succeeded /\ ops = <<>> /\ keepEol /\ exists) =>
    /\ file = <<content>>
    /\ result[1].linesModified = 0
    /\ result[1].diff.changes = <<>>

\* the terminators of the text are of one style at most
OneStyle(text) ==
  Cardinality({st \in EolStyles :
                 (CASE st = "CRLF" -> countCrlf(text)
                    [] st = "LF"   -> countLf(text)
                    [] OTHER       -> countCr(text)) > 0}) <= 1

\* C28 amended: the content is kept, terminator by terminator, when its
\* terminators are of one style; linesModified is 0 and no change is
\* reported whatever the content
C28_NoOpsKeepsOneStyleContent ==
  (Succeeded /\ ops = <<>> /\ keepEol /\ exists) =>
    /\ OneStyle(content) => file = <<content>>
    /\ result[1].linesModified = 0
    /\ result[1].diff.changes = <<>>

\* a file of \r\n terminators written back as it was
C28_Witness ==
  /\ Succeeded /\ ops = <<>> /\ keepEol /\ exists
  /\ OneStyle(content)
  /\ countCrlf(content) >= 1
  /\ Len(before) = 2
  /\ file = <<content>>

----------------------------------------------------------------------------
(* The order of the changes between two equal lines (SpecDiff).            *)

\* C29 as stated: in the operation stream no add is immediately followed by
\* a del, and in no hunk a '+' line is immediately followed by a '-' line
C29_DeletionsBeforeAdditions ==
  pc = "diffed" =>
    /\ \A k \in 1..(Len(Stream) - 1) :
         ~(Stream[k].type = "add" /\ Stream[k + 1].type = "del")
    /\ \A h \in 1..Len(diff.hunks) :
         \A i \in 1..(Len(diff.hunks[h].lines) - 1) :
           ~(/\ diff.hunks[h].lines[i].prefix = "+"
             /\ diff.hunks[h].lines[i + 1].prefix = "-")

\* a deletion immediately followed by an addition, among three changes or more
C29_Witness ==
  /\ pc = "diffed"
  /\ Len(diff.changes) >= 3
  /\ \E k \in 1..(Len(Stream) - 1) :
       /\ Stream[k].type = "del" /\ Stream[k + 1].type = "add"
       /\ preferDel(lcsTable(texts(before), texts(after)), Stream[k].aIndex, Stream[k].bIndex)
       /\ Stream[k].aIndex < Len(before) /\ Stream[k].bIndex < Len(after)
  /\ \E h \in 1..Len(diff.hunks) :
       \E i \in 1..(Len(diff.hunks[h].lines) - 1) :
         /\ diff.hunks[h].lines[i].prefix = "-"
         /\ diff.hunks[h].lines[i + 1].prefix = "+"

====
